---- MODULE Spec2Model ----
(***************************************************************************)
(* A model of the Fildir extension (src/src/extension.ts): the filter set  *)
(* of FilteredDirectoryProvider, its reload / add / remove operations, the *)
(* virtual-path resolution and the filtered directory listing.             *)
(*                                                                         *)
(* JavaScript strings are modelled as sequences of one-character strings   *)
(* ("a/b" is <<"a", "/", "b">>), so that startsWith, endsWith, split, join *)
(* and trim are computed character by character, as the code computes      *)
(* them.  A JavaScript Set<string> is modelled as a set of such sequences  *)
(* (the code never depends on the insertion order of this.filters), and    *)
(* the array written to the settings as the set of its elements.           *)
(***************************************************************************)
EXTENDS Naturals, Sequences, FiniteSets

VARIABLES
    filters,          \* this.filters                      (extension.ts:8)
    config,           \* the host's "fildir.prefixes" setting
    workspaceFolders, \* vscode.workspace.workspaceFolders
    rootNodes,        \* this.rootNodes                    (extension.ts:161)
    pendingAdds,      \* addPrefix calls suspended on fs.stat           (extension.ts:51)
    pendingLists,     \* readDirectory calls suspended on fs.readDirectory (extension.ts:386)
    out,              \* what the last handler emitted, in emission order
    lastOp,           \* the last handler that ran, with its inputs and result
    workspaceOpen,    \* whether vscode.workspace.workspaceFolders is defined
    rootWatchers,     \* this.rootWatchers                 (extension.ts:9)
    liveWatchers,     \* the file system watchers created and not disposed
    changeEvents      \* onDidChangeWorkspaceFolders events not yet delivered

\* the state that only the root mapping and the host's folder list touch
rootVars == <<workspaceOpen, rootWatchers, liveWatchers, changeEvents>>

vars == <<filters, config, workspaceFolders, rootNodes, rootVars, pendingAdds,
          pendingLists, out, lastOp>>

----------------------------------------------------------------------------
(* Bounds of the model *)

\* most entries a user types into the "fildir.prefixes" setting
MaxConfigLen == 2
\* most filters held at once (addPrefix is not taken beyond it)
MaxFilters == 2
\* most addPrefix calls suspended on their stat at once
MaxPendingAdds == 2
\* most readDirectory calls suspended on their real listing at once
MaxPendingLists == 1
\* most entries of a real directory listing
MaxFinds == 2
\* most top-level folders of the workspace
MaxFolders == 4
\* most file system watchers alive at once
MaxWatchers == 4
\* most onDidChangeWorkspaceFolders events waiting to be delivered
MaxChangeEvents == 1

----------------------------------------------------------------------------
(* JavaScript string and array primitives *)

\* String.prototype.startsWith
StartsWith(s, p) ==
    /\ Len(p) <= Len(s)
    /\ SubSeq(s, 1, Len(p)) = p

\* String.prototype.endsWith
EndsWith(s, p) ==
    /\ Len(p) <= Len(s)
    /\ SubSeq(s, Len(s) - Len(p) + 1, Len(s)) = p

RECURSIVE SplitFrom(_, _, _, _)
SplitFrom(s, sep, cur, i) ==
    IF i > Len(s) THEN <<cur>>
    ELSE IF s[i] = sep THEN <<cur>> \o SplitFrom(s, sep, <<>>, i + 1)
    ELSE SplitFrom(s, sep, Append(cur, s[i]), i + 1)

\* String.prototype.split(sep): "" splits into [""], "a/" into ["a", ""]
Split(s, sep) == SplitFrom(s, sep, <<>>, 1)

RECURSIVE Join(_, _)
\* Array.prototype.join(sep): [] joins into ""
Join(segs, sep) ==
    IF segs = <<>> THEN <<>>
    ELSE IF Len(segs) = 1 THEN segs[1]
    ELSE segs[1] \o <<sep>> \o Join(Tail(segs), sep)

\* Array.prototype.slice(from, to) with 0-based from, exclusive to
Slice(a, from, to) == SubSeq(a, from + 1, to)

\* white space as String.prototype.trim sees it
IsWhiteSpace(c) == c \in {" ", "\t", "\n"}

RECURSIVE TrimStart(_)
TrimStart(s) ==
    IF s # <<>> /\ IsWhiteSpace(Head(s)) THEN TrimStart(Tail(s)) ELSE s

RECURSIVE TrimEnd(_)
TrimEnd(s) ==
    IF s # <<>> /\ IsWhiteSpace(s[Len(s)])
    THEN TrimEnd(SubSeq(s, 1, Len(s) - 1))
    ELSE s

\* String.prototype.trim
Trim(s) == TrimEnd(TrimStart(s))

\* an array with its i-th element taken out
RemoveAt(a, i) == SubSeq(a, 1, i - 1) \o SubSeq(a, i + 1, Len(a))

----------------------------------------------------------------------------
(* The host: settings, workspace folders *)

\* "myproj/" and "otherproj/", the default of fildir.prefixes
DefaultPrefixes ==
    { <<"m", "y", "p", "r", "o", "j", "/">>,
      <<"o", "t", "h", "e", "r", "p", "r", "o", "j", "/">> }

\* what a user can type as one entry of the setting
RawPrefixes == { <<>>, <<"a">>, <<"a", "/">>, <<"a", "/", "a", "b", "/">> }

\* lists a user can type whose entries hold an empty segment
EmptySegmentLists == { { <<"/">> }, { <<"a", "/">>, <<"a", "/", "/">> } }

\* the values the setting can take: never written (the default applies),
\* written as null, or a list of strings
UserConfigs ==
    { [kind |-> "unset", value |-> {}], [kind |-> "null", value |-> {}] }
    \cup { [kind |-> "list", value |-> S] :
             S \in {T \in SUBSET RawPrefixes : Cardinality(T) <= MaxConfigLen} }
    \cup { [kind |-> "list", value |-> S] : S \in EmptySegmentLists }

\* vscode.workspace.getConfiguration("fildir").get("prefixes"): the
\* declared default when the setting was never written; a setting written
\* as null is handed over as it is (defined = FALSE)
ConfigGet(cfg) ==
    CASE cfg.kind = "unset" -> [defined |-> TRUE, value |-> DefaultPrefixes]
      [] cfg.kind = "null" -> [defined |-> FALSE, value |-> {}]
      [] OTHER -> [defined |-> TRUE, value |-> cfg.value]

\* the name and the URI of the synthetic workspace folder
FildirName == <<"F", "i", "l", "t", "e", "r", "e", "d", " ", "V", "i", "e", "w">>
FildirFolder == [name |-> FildirName, scheme |-> "fildir", path |-> <<"/">>]

\* the real workspace folders of the model
FolderP == [name |-> <<"p">>, scheme |-> "file", path |-> <<"/", "w", "/", "p">>]
FolderQ == [name |-> <<"q">>, scheme |-> "ftp", path |-> <<"/", "q">>]
FolderR == [name |-> <<"r">>, scheme |-> "file", path |-> <<"/", "w", "/", "r">>]

\* the workspaces the provider is constructed in
InitialWorkspaces == { <<FolderP, FolderQ, FolderR, FildirFolder>> }

----------------------------------------------------------------------------
(* Emissions *)

\* this._onDidChangeTreeData.fire(null)
TreeFire == [kind |-> "tree"]
\* this._onDidChangeFile.fire(batch)
FileFire(batch) == [kind |-> "file", batch |-> batch]
\* config.update("fildir.prefixes", [...this.filters], Workspace)
ConfigUpdate(value) == [kind |-> "config", value |-> value]
\* vscode.window.showErrorMessage(...)
ShowError == [kind |-> "error"]
\* one vscode.FileChangeEvent; uri is the path of the fildir: URI
Event(type, path) == [type |-> type, uri |-> path]

----------------------------------------------------------------------------
(* History of the suspended listings *)

\* pendingLists once this.filters has become fs: a suspended listing
\* records that the filter set was replaced or changed under it
Disturbed(fs) ==
    [i \in 1..Len(pendingLists) |->
        [pendingLists[i] EXCEPT !.held = @ /\ fs = filters]]

----------------------------------------------------------------------------
(* reloadConfig *)

\* the set built from the configured list by the forEach loop
normalizedFilters(raw) == raw

\* a reload that merges the configured list into the stored set
reloadConfigMerging ==
    LET got == ConfigGet(config) IN
    /\ got.defined
    /\ filters' = filters \cup normalizedFilters(got.value)
    /\ out' = <<TreeFire, FileFire(<<Event("Changed", <<"/">>)>>)>>
    /\ lastOp' = [op |-> "reloadConfig", threw |-> "none",
                  read |-> got.value, before |-> filters]
    /\ pendingLists' = Disturbed(filters')
    /\ UNCHANGED <<config, workspaceFolders, rootNodes, rootVars, pendingAdds>>

\* a reload that fires its two events before it assigns this.filters
reloadConfigFiresFirst ==
    LET got == ConfigGet(config) IN
    /\ got.defined
    /\ filters' = normalizedFilters(got.value)
    /\ out' = <<TreeFire, FileFire(<<Event("Changed", <<"/">>)>>)>>
    /\ lastOp' = [op |-> "reloadConfig", threw |-> "none",
                  read |-> got.value, before |-> filters,
                  seen |-> [i \in 1..2 |-> filters]]
    /\ pendingLists' = Disturbed(filters')
    /\ UNCHANGED <<config, workspaceFolders, rootNodes, rootVars, pendingAdds>>

\* reloadConfig(), as the reload_config command runs it; seen is the filter
\* set a listener finds stored at each emission
reloadConfig ==
    LET got == ConfigGet(config) IN
    IF ~got.defined
    THEN \* filters.forEach on a missing value throws a TypeError
         /\ lastOp' = [op |-> "reloadConfig", threw |-> "TypeError",
                       read |-> {}, before |-> filters, seen |-> <<>>]
         /\ out' = <<>>
         /\ UNCHANGED <<filters, config, workspaceFolders, rootNodes, rootVars,
                        pendingAdds, pendingLists>>
    ELSE /\ filters' = normalizedFilters(got.value)
         /\ out' = <<TreeFire, FileFire(<<Event("Changed", <<"/">>)>>)>>
         /\ lastOp' = [op |-> "reloadConfig", threw |-> "none",
                       read |-> got.value, before |-> filters,
                       seen |-> [i \in 1..2 |-> filters']]
         /\ pendingLists' = Disturbed(filters')
         /\ UNCHANGED <<config, workspaceFolders, rootNodes, rootVars, pendingAdds>>

\* the user edits fildir.prefixes in the settings
UserEditsSettings ==
    \E c \in UserConfigs :
        /\ config' = c
        /\ out' = <<>>
        /\ lastOp' = [op |-> "userEditsSettings"]
        /\ UNCHANGED <<filters, workspaceFolders, rootNodes, rootVars,
                       pendingAdds, pendingLists>>

----------------------------------------------------------------------------
(* rebuildRootNodes: the root mapping *)

\* a loop that maps every folder, whatever its scheme
rootNodesOfAnyScheme(folders) ==
    [i \in 1..Len(folders) |->
        [name |-> folders[i].name, path |-> folders[i].path]]

RECURSIVE rootNodesOf(_)
\* the Map built by the loop over the workspace folders, in insertion
\* order; setting a name again keeps its place and replaces its path
rootNodesOf(folders) ==
    IF folders = <<>> THEN <<>>
    ELSE LET rest == rootNodesOf(SubSeq(folders, 1, Len(folders) - 1))
             f == folders[Len(folders)]
             e == [name |-> f.name, path |-> f.path]
         IN IF f.scheme # "file" THEN rest
            ELSE IF \E i \in 1..Len(rest) : rest[i].name = f.name
            THEN [i \in 1..Len(rest) |->
                    IF rest[i].name = f.name THEN e ELSE rest[i]]
            ELSE Append(rest, e)

\* this.rootNodes.has(name)
RootHas(nodes, name) == \E i \in 1..Len(nodes) : nodes[i].name = name

\* this.rootNodes.get(name)
RootGet(nodes, name) ==
    nodes[CHOOSE i \in 1..Len(nodes) : nodes[i].name = name].path

----------------------------------------------------------------------------
(* addPrefix, removePrefix, afterPrefixChanges *)

\* JavaScript's null, where a string is expected: unlike every modelled
\* string, its element is not a single character
Null == <<"null">>

\* a string or null that a JavaScript `if` takes as true
Truthy(s) == s # Null /\ s # <<>>

\* the URIs handed to the add_prefix command: a scheme, the name of the
\* workspace folder that holds the resource, and the segments below it
AddUris ==
    { [scheme |-> sc, root |-> <<"p">>, segs |-> sg] :
        sc \in {"file", "ftp"}, sg \in {<< <<"a">> >>, << <<"a">>, <<"a", "b">> >>} }

\* vscode.workspace.asRelativePath(uri) in a workspace of several folders
\* (the synthetic folder is one of them): folder name, "/", relative path
asRelativePath(uri) == Join(<<uri.root>> \o uri.segs, "/")

\* a derivation that keeps the name of the workspace folder
DerivedFilterKeepsRoot(relPath, type) ==
    IF type = "Directory" THEN relPath \o <<"/">> ELSE relPath

\* the filter derived from relPath for a stat result of the given type
DerivedFilter(relPath, type) ==
    IF type = "Directory"
    THEN Join(Slice(Split(relPath, "/"), 1, Len(Split(relPath, "/"))), "/")
            \o <<"/">>
    ELSE Join(Slice(Split(relPath, "/"), 1, Len(Split(relPath, "/"))), "/")

\* the Created events pushed when relPath is given
CreatedEvents(relPath) ==
    IF Truthy(relPath)
    THEN LET split == Split(relPath, "/")
         IN [i \in 1..Len(split) |->
               \* "fildir:/" + split.slice(0, x): an array joins with ","
               Event("Created", <<"/">> \o Join(Slice(split, 0, i - 1), ","))]
    ELSE <<>>

\* the Deleted events pushed when prefix is given, one per workspace folder
DeletedEvents(prefix, folders) ==
    IF Truthy(prefix)
    THEN [i \in 1..Len(folders) |->
            Event("Deleted", <<"/">> \o folders[i].name \o <<"/">> \o prefix)]
    ELSE <<>>

\* an afterPrefixChanges that returns early when the set did not change
afterPrefixChangesIfChanged(relPath, prefix) ==
    IF filters' = filters
    THEN config' = config /\ out' = <<>>
    ELSE /\ config' = [kind |-> "list", value |-> filters']
         /\ out' = << ConfigUpdate(filters'),
                      TreeFire,
                      FileFire(CreatedEvents(relPath)
                               \o DeletedEvents(prefix, workspaceFolders)) >>

\* an afterPrefixChanges that edits the list it reads from the settings
afterPrefixChangesEditsList(relPath, prefix) ==
    LET edited == (ConfigGet(config).value
                       \cup (IF Truthy(relPath) THEN {relPath} ELSE {}))
                  \ {prefix}
    IN /\ config' = [kind |-> "list", value |-> edited]
       /\ out' = << ConfigUpdate(edited),
                    TreeFire,
                    FileFire(CreatedEvents(relPath)
                             \o DeletedEvents(prefix, workspaceFolders)) >>

\* afterPrefixChanges(relPath, prefix), run once this.filters is updated
afterPrefixChanges(relPath, prefix) ==
    /\ config' = [kind |-> "list", value |-> filters']
    /\ out' = << ConfigUpdate(filters'),
                 TreeFire,
                 FileFire(CreatedEvents(relPath)
                          \o DeletedEvents(prefix, workspaceFolders)) >>

\* an addPrefix that lacks the check of the scheme
addPrefixAnyScheme ==
    \E uri \in AddUris :
        /\ Len(pendingAdds) < MaxPendingAdds
        /\ pendingAdds' =
               Append(pendingAdds,
                      [relPath |-> asRelativePath(uri), uri |-> uri])
        /\ out' = <<>>
        /\ lastOp' = [op |-> "addPrefix", uri |-> uri, threw |-> "none"]
        /\ UNCHANGED <<filters, config, workspaceFolders, rootNodes, rootVars,
                       pendingLists>>

\* addPrefix(uri) up to its suspension on vscode.workspace.fs.stat(uri)
addPrefix ==
    \E uri \in AddUris :
        IF uri.scheme # "file"
        THEN /\ out' = <<ShowError>>
             /\ lastOp' = [op |-> "addPrefix", uri |-> uri, threw |-> "none"]
             /\ UNCHANGED <<filters, config, workspaceFolders, rootNodes, rootVars,
                            pendingAdds, pendingLists>>
        ELSE /\ Len(pendingAdds) < MaxPendingAdds
             /\ pendingAdds' =
                    Append(pendingAdds,
                           [relPath |-> asRelativePath(uri), uri |-> uri])
             /\ out' = <<>>
             /\ lastOp' = [op |-> "addPrefix", uri |-> uri, threw |-> "none"]
             /\ UNCHANGED <<filters, config, workspaceFolders, rootNodes, rootVars,
                            pendingLists>>

\* an addPrefixThen that stores the path with and without the separator
addPrefixThenBothForms ==
    \E i \in 1..Len(pendingAdds), type \in {"Directory", "File"} :
        LET relPath == DerivedFilter(pendingAdds[i].relPath, type) IN
        LET both == {relPath, DerivedFilter(pendingAdds[i].relPath, "File")} IN
        /\ Cardinality(filters \cup both) <= MaxFilters
        /\ filters' = filters \cup both
        /\ afterPrefixChanges(relPath, Null)
        /\ pendingAdds' = RemoveAt(pendingAdds, i)
        /\ lastOp' = [op |-> "addPrefixThen", uri |-> pendingAdds[i].uri,
                      type |-> type, before |-> filters]
        /\ pendingLists' = Disturbed(filters')
        /\ UNCHANGED <<workspaceFolders, rootNodes, rootVars>>

\* the callback to stat: the filter is derived, stored, persisted, signalled;
\* seen is the filter set a listener finds stored at each emission
addPrefixThen ==
    \E i \in 1..Len(pendingAdds), type \in {"Directory", "File"} :
        LET relPath == DerivedFilter(pendingAdds[i].relPath, type) IN
        /\ Cardinality(filters \cup {relPath}) <= MaxFilters
        /\ filters' = filters \cup {relPath}
        /\ afterPrefixChanges(relPath, Null)
        /\ pendingAdds' = RemoveAt(pendingAdds, i)
        /\ lastOp' = [op |-> "addPrefixThen", uri |-> pendingAdds[i].uri,
                      type |-> type, before |-> filters,
                      seen |-> [k \in 1..3 |-> filters']]
        /\ pendingLists' = Disturbed(filters')
        /\ UNCHANGED <<workspaceFolders, rootNodes, rootVars>>

\* stat rejects (the resource is gone): the callback never runs
addPrefixStatFails ==
    \E i \in 1..Len(pendingAdds) :
        /\ pendingAdds' = RemoveAt(pendingAdds, i)
        /\ out' = <<>>
        /\ lastOp' = [op |-> "addPrefixStatFails", uri |-> pendingAdds[i].uri]
        /\ UNCHANGED <<filters, config, workspaceFolders, rootNodes, rootVars,
                       pendingLists>>

\* the strings handed to the remove_prefix command
RemoveArgs ==
    { <<"a">>, <<"a", "/">>, <<"a", "/", "a", "b", "/">>,
      <<"m", "y", "p", "r", "o", "j", "/">> }

\* a removePrefix that removes every filter that starts with the prefix
removePrefixBelow ==
    \E prefix \in RemoveArgs :
        /\ filters' = { f \in filters : ~StartsWith(f, prefix) }
        /\ afterPrefixChanges(Null, prefix)
        /\ lastOp' = [op |-> "removePrefix", prefix |-> prefix,
                      before |-> filters,
                      prev |-> IF lastOp.op = "addPrefixThen" THEN lastOp
                               ELSE [op |-> lastOp.op]]
        /\ pendingLists' = Disturbed(filters')
        /\ UNCHANGED <<workspaceFolders, rootNodes, rootVars, pendingAdds>>

\* removePrefix(prefix); prev is the handler that ran just before, seen the
\* filter set a listener finds stored at each emission
removePrefix ==
    \E prefix \in RemoveArgs :
        /\ filters' = filters \ {prefix}
        /\ afterPrefixChanges(Null, prefix)
        /\ lastOp' = [op |-> "removePrefix", prefix |-> prefix,
                      before |-> filters,
                      seen |-> [k \in 1..3 |-> filters'],
                      prev |-> IF lastOp.op = "addPrefixThen" THEN lastOp
                               ELSE [op |-> lastOp.op]]
        /\ pendingLists' = Disturbed(filters')
        /\ UNCHANGED <<workspaceFolders, rootNodes, rootVars, pendingAdds>>

----------------------------------------------------------------------------
(* Virtual paths and the filter predicates *)

\* the outcome of splitRelativePath(path): the root name and the subpath,
\* or the FileNotFound it throws for an unknown root, about the path that
\* its message carries
splitRelativePath(path) ==
    LET p == IF path # <<>> /\ path[1] = "/"
             THEN SubSeq(path, 2, Len(path)) ELSE path
        segments == Split(p, "/")
    IN IF ~RootHas(rootNodes, segments[1])
       THEN [threw |-> "FileNotFound", about |-> p, root |-> <<>>,
             subpath |-> <<>>]
       ELSE [threw |-> "none", about |-> <<>>, root |-> segments[1],
             subpath |-> Join(Slice(segments, 1, Len(segments)), "/")]

\* a convertPath that joins the base path and the subpath with no separator
convertPathNoSeparator(path) ==
    LET r == splitRelativePath(path)
    IN IF r.threw # "none"
       THEN [threw |-> r.threw, about |-> r.about, path |-> <<>>,
             subpath |-> <<>>]
       ELSE [threw |-> "none", about |-> <<>>,
             path |-> RootGet(rootNodes, r.root) \o r.subpath,
             subpath |-> r.subpath]

\* the outcome of convertPath(path): the real path and the subpath
convertPath(path) ==
    LET r == splitRelativePath(path)
    IN IF r.threw # "none"
       THEN [threw |-> r.threw, about |-> r.about, path |-> <<>>,
             subpath |-> <<>>]
       ELSE [threw |-> "none", about |-> <<>>,
             path |-> RootGet(rootNodes, r.root) \o <<"/">> \o r.subpath,
             subpath |-> r.subpath]

\* a prefixOfFilter that asks every filter, not some filter, to start
\* with the subpath
prefixOfFilterInEvery(fs, subpath) ==
    \A filter \in fs : StartsWith(filter, subpath \o <<"/">>)

\* a prefixOfFilter that compares without the separator after the subpath
prefixOfFilterInBare(fs, subpath) ==
    \E filter \in fs : StartsWith(filter, subpath)

\* prefixOfFilter(subpath), read against the filter set fs
prefixOfFilterIn(fs, subpath) ==
    \E filter \in fs : StartsWith(filter, subpath \o <<"/">>)

\* subpathMatchesFilter(subpath), read against the filter set fs
subpathMatchesFilterIn(fs, subpath) ==
    LET sp == IF ~EndsWith(subpath, <<"/">>) THEN subpath \o <<"/">>
              ELSE subpath
    IN \E filter \in fs : StartsWith(sp, filter)

\* the two predicates as methods: they read this.filters
prefixOfFilter(subpath) == prefixOfFilterIn(filters, subpath)
subpathMatchesFilter(subpath) == subpathMatchesFilterIn(filters, subpath)

----------------------------------------------------------------------------
(* readDirectory below the synthetic root *)

\* the names and the kinds of the entries of a real directory
Names == { <<"a">>, <<"a", "b">> }
Kinds == { "File", "Directory" }
Entries == { <<n, k>> : n \in Names, k \in Kinds }

\* a real listing: entries of distinct names, in the order the real
\* filesystem enumerates them
RECURSIVE ListingsOfLen(_)
ListingsOfLen(n) ==
    IF n = 0 THEN { <<>> }
    ELSE { Append(l, e) : l \in ListingsOfLen(n - 1), e \in Entries }
Listings ==
    { l \in UNION { ListingsOfLen(n) : n \in 0..MaxFinds } :
        \A i, j \in 1..Len(l) : i # j => l[i][1] # l[j][1] }

\* the paths of the fildir: URIs handed to readDirectory
VirtualPaths ==
    { <<"/", "p">>, <<"/", "p", "/", "a">>, <<"/", "p", "/", " ">>,
      <<"/", "q">> }

\* the path tested for the entry dirent of the directory at subpath
TestPath(subpath, dirent) ==
    IF Len(Trim(subpath)) > 0 THEN subpath \o <<"/">> \o dirent ELSE dirent

\* a callback that tests every entry, whatever the directory's own match
PushesTestsEvery(matchesFilter, subpath, entry) ==
    IF entry[2] = "Directory"
    THEN prefixOfFilter(TestPath(subpath, entry[1]))
    ELSE subpathMatchesFilter(TestPath(subpath, entry[1]))

\* whether the callback pushes the entry <<dirent, direntType>>
Pushes(matchesFilter, subpath, entry) ==
    IF matchesFilter THEN TRUE
    ELSE IF entry[2] = "Directory"
    THEN prefixOfFilter(TestPath(subpath, entry[1]))
    ELSE subpathMatchesFilter(TestPath(subpath, entry[1]))

\* a callback that returns the directories before the other entries
ItemsDirectoriesFirst(matchesFilter, subpath, finds) ==
    SelectSeq(finds, LAMBDA entry : /\ entry[2] = "Directory"
                                    /\ Pushes(matchesFilter, subpath, entry))
    \o SelectSeq(finds, LAMBDA entry : /\ entry[2] # "Directory"
                                       /\ Pushes(matchesFilter, subpath, entry))

\* the items the callback returns for the real listing finds
Items(matchesFilter, subpath, finds) ==
    SelectSeq(finds, LAMBDA entry : Pushes(matchesFilter, subpath, entry))

\* readDirectory(uri) for uri.path # "/", up to its suspension on the real
\* readDirectory
readDirectory ==
    \E vpath \in VirtualPaths :
        LET r == convertPath(vpath) IN
        IF r.threw # "none"
        THEN /\ lastOp' = [op |-> "readDirectory", vpath |-> vpath,
                           threw |-> r.threw]
             /\ out' = <<>>
             /\ UNCHANGED <<filters, config, workspaceFolders, rootNodes, rootVars,
                            pendingAdds, pendingLists>>
        ELSE /\ Len(pendingLists) < MaxPendingLists
             /\ pendingLists' =
                    Append(pendingLists,
                           [path |-> r.path, subpath |-> r.subpath,
                            matchesFilter |-> subpathMatchesFilter(r.subpath),
                            vpath |-> vpath, held |-> TRUE,
                            callFilters |-> filters])
             /\ lastOp' = [op |-> "readDirectory", vpath |-> vpath,
                           threw |-> "none"]
             /\ out' = <<>>
             /\ UNCHANGED <<filters, config, workspaceFolders, rootNodes, rootVars,
                            pendingAdds>>

\* the callback to the real readDirectory
readDirectoryThen ==
    \E i \in 1..Len(pendingLists), finds \in Listings :
        LET c == pendingLists[i] IN
        /\ pendingLists' = RemoveAt(pendingLists, i)
        /\ lastOp' = [op |-> "readDirectoryThen", vpath |-> c.vpath,
                      path |-> c.path, subpath |-> c.subpath,
                      matchesFilter |-> c.matchesFilter, held |-> c.held,
                      callFilters |-> c.callFilters,
                      finds |-> finds,
                      items |-> Items(c.matchesFilter, c.subpath, finds)]
        /\ out' = <<>>
        /\ UNCHANGED <<filters, config, workspaceFolders, rootNodes, rootVars,
                       pendingAdds>>

\* the real readDirectory rejects: the failure is the caller's result
readDirectoryFails ==
    \E i \in 1..Len(pendingLists) :
        /\ pendingLists' = RemoveAt(pendingLists, i)
        /\ lastOp' = [op |-> "readDirectoryFails",
                      vpath |-> pendingLists[i].vpath]
        /\ out' = <<>>
        /\ UNCHANGED <<filters, config, workspaceFolders, rootNodes, rootVars,
                       pendingAdds>>

----------------------------------------------------------------------------
(* The specifications *)

\* the state once the constructor has run reloadConfig and
\* rebuildRootNodes; a constructor that throws leaves no provider
----------------------------------------------------------------------------
(* stat and the pass-through operations *)

\* the virtual paths handed to stat
ResolvePaths ==
    { <<"/">>,
      <<"/", "p">>,
      <<"/", "p", "/", "a", "/", "a", "b">>,
      <<"p", "/", "a">>,
      <<"/", "r", "/", "a">>,
      <<"/", "q", "/", "a">>,
      <<"/", "/", "p">> }

\* the virtual paths handed to the pass-through operations
MutationPaths ==
    { <<"/", "p">>,
      <<"/", "p", "/", "a", "/", "a", "b">>,
      <<"/", "r", "/", "a">>,
      <<"/", "q", "/", "a">> }

\* how the real file system settles the call delegated to it
FsResults == { "done", "failed" }

\* a call of vscode.workspace.fs.fn on the real paths
Delegates(fn, paths) == [kind |-> "fs", fn |-> fn, paths |-> paths]

\* an operation of one path out of paths: the path is converted and the
\* operation is delegated to the real file system, whose settlement is
\* returned
passThrough(op, paths) ==
    \E vpath \in paths, result \in FsResults :
        LET c == convertPath(vpath) IN
        /\ IF c.threw # "none"
           THEN /\ out' = <<>>
                /\ lastOp' = [op |-> op, args |-> <<vpath>>, threw |-> c.threw,
                              about |-> c.about, real |-> <<>>,
                              subpaths |-> <<>>, result |-> "none"]
           ELSE /\ out' = << Delegates(op, <<c.path>>) >>
                /\ lastOp' = [op |-> op, args |-> <<vpath>>, threw |-> "none",
                              about |-> <<>>, real |-> <<c.path>>,
                              subpaths |-> <<c.subpath>>, result |-> result]
        /\ UNCHANGED <<filters, config, workspaceFolders, rootNodes, rootVars,
                       pendingAdds, pendingLists>>

\* an operation of two paths that looks at the first on the real file system
\* before it converts the second
passThroughBothEager(op) ==
    \E from \in MutationPaths, to \in MutationPaths, result \in FsResults :
        LET c == convertPath(from)
            d == convertPath(to)
        IN
        /\ IF c.threw # "none" \/ d.threw # "none"
           THEN /\ out' = IF c.threw = "none"
                          THEN << Delegates("stat", <<c.path>>) >>
                          ELSE <<>>
                /\ lastOp' = [op |-> op, args |-> <<from, to>>,
                              threw |-> IF c.threw # "none" THEN c.threw
                                        ELSE d.threw,
                              about |-> IF c.threw # "none" THEN c.about
                                        ELSE d.about,
                              real |-> <<>>, subpaths |-> <<>>,
                              result |-> "none"]
           ELSE /\ out' = << Delegates(op, <<c.path, d.path>>) >>
                /\ lastOp' = [op |-> op, args |-> <<from, to>>,
                              threw |-> "none", about |-> <<>>,
                              real |-> <<c.path, d.path>>,
                              subpaths |-> <<c.subpath, d.subpath>>,
                              result |-> result]
        /\ UNCHANGED <<filters, config, workspaceFolders, rootNodes, rootVars,
                       pendingAdds, pendingLists>>

\* an operation of two paths: both are converted, the first one first, and
\* the operation is delegated to the real file system
passThroughBoth(op) ==
    \E from \in MutationPaths, to \in MutationPaths, result \in FsResults :
        LET c == convertPath(from)
            d == convertPath(to)
        IN
        /\ IF c.threw # "none" \/ d.threw # "none"
           THEN /\ out' = <<>>
                /\ lastOp' = [op |-> op, args |-> <<from, to>>,
                              threw |-> IF c.threw # "none" THEN c.threw
                                        ELSE d.threw,
                              about |-> IF c.threw # "none" THEN c.about
                                        ELSE d.about,
                              real |-> <<>>, subpaths |-> <<>>,
                              result |-> "none"]
           ELSE /\ out' = << Delegates(op, <<c.path, d.path>>) >>
                /\ lastOp' = [op |-> op, args |-> <<from, to>>,
                              threw |-> "none", about |-> <<>>,
                              real |-> <<c.path, d.path>>,
                              subpaths |-> <<c.subpath, d.subpath>>,
                              result |-> result]
        /\ UNCHANGED <<filters, config, workspaceFolders, rootNodes, rootVars,
                       pendingAdds, pendingLists>>

\* stat(uri): a fixed descriptor for the virtual root, the real stat otherwise
stat ==
    \/ /\ out' = <<>>
       /\ lastOp' = [op |-> "stat", args |-> << <<"/">> >>, threw |-> "none",
                     about |-> <<>>, real |-> <<>>, subpaths |-> <<>>,
                     result |-> "Directory"]
       /\ UNCHANGED <<filters, config, workspaceFolders, rootNodes, rootVars,
                      pendingAdds, pendingLists>>
    \/ /\ passThrough("stat", ResolvePaths)
       /\ lastOp'.args # << <<"/">> >>

\* createDirectory(uri)
createDirectory == passThrough("createDirectory", MutationPaths)

\* readFile(uri)
readFile == passThrough("readFile", MutationPaths)

\* a writeFile that refuses a path that no filter matches
writeFileIfVisible ==
    \E vpath \in MutationPaths, result \in FsResults :
        LET c == convertPath(vpath) IN
        /\ IF c.threw # "none" \/ ~subpathMatchesFilter(c.subpath)
           THEN /\ out' = <<>>
                /\ lastOp' = [op |-> "writeFile", args |-> <<vpath>>,
                              threw |-> IF c.threw # "none" THEN c.threw
                                        ELSE "NoPermissions",
                              about |-> c.about, real |-> <<>>,
                              subpaths |-> <<>>, result |-> "none"]
           ELSE /\ out' = << Delegates("writeFile", <<c.path>>) >>
                /\ lastOp' = [op |-> "writeFile", args |-> <<vpath>>,
                              threw |-> "none", about |-> <<>>,
                              real |-> <<c.path>>,
                              subpaths |-> <<c.subpath>>, result |-> result]
        /\ UNCHANGED <<filters, config, workspaceFolders, rootNodes, rootVars,
                       pendingAdds, pendingLists>>

\* writeFile(uri, content, options)
writeFile == passThrough("writeFile", MutationPaths)

\* delete(uri, options)
delete == passThrough("delete", MutationPaths)

\* rename(oldUri, newUri, options)
rename == passThroughBoth("rename")

\* copy(source, destination, options)
copy == passThroughBoth("copy")

----------------------------------------------------------------------------
(* The root mapping, its watchers and the host's list of folders *)

\* the folders a workspace is made of
Folders == { FolderP, FolderQ, FolderR, FildirFolder }

\* the folder lists the host can hold: no folder is mounted twice
Workspaces ==
    UNION { { w \in [1..n -> Folders] :
                \A i, j \in 1..n : w[i] = w[j] => i = j } : n \in 0..MaxFolders }

\* a call of vscode.workspace.updateWorkspaceFolders, as the host sees it
HostUpdate(start, deleteCount, add) ==
    [kind |-> "updateWorkspaceFolders", start |-> start,
     deleteCount |-> deleteCount, add |-> add]

\* the folder list with deleteCount folders replaced by add, from index start
Splice(folders, start, deleteCount, add) ==
    SubSeq(folders, 1, start) \o add
        \o SubSeq(folders, start + deleteCount + 1, Len(folders))

\* the host takes an update that deletes no more than there is, mounts no
\* folder twice and changes the list
Accepts(folders, start, deleteCount, add) ==
    LET new == Splice(folders, start, deleteCount, add)
    IN /\ ~(deleteCount = 0 /\ add = <<>>)
       /\ start + deleteCount <= Len(folders)
       /\ \A i, j \in 1..Len(new) :
              (new[i].scheme = new[j].scheme /\ new[i].path = new[j].path)
                  => i = j
       /\ new # folders

\* vscode.workspace.updateWorkspaceFolders(start, deleteCount, ...add), called
\* while due change events wait: the extension sees the new list at once and
\* the host announces it later
updateWorkspaceFolders(start, deleteCount, add, due) ==
    IF Accepts(workspaceFolders, start, deleteCount, add)
    THEN /\ workspaceFolders' = Splice(workspaceFolders, start, deleteCount, add)
         /\ changeEvents' = due + 1
    ELSE /\ workspaceFolders' = workspaceFolders
         /\ changeEvents' = due

\* the folders the loop of rebuildRootNodes does not skip
FileFolders(folders) == SelectSeq(folders, LAMBDA f : f.scheme = "file")

\* the watchers the loop creates, one for each folder it does not skip
WatchersOf(folders) ==
    [i \in 1..Len(FileFolders(folders)) |->
        [base |-> FileFolders(folders)[i].path]]

\* this.rootWatchers once the loop has set, for each folder it does not skip,
\* the watcher it created (the watchers are numbered as liveWatchers holds them)
rootWatchersSet(watchers, folders, first) ==
    LET created == FileFolders(folders)
        names == { created[i].name : i \in 1..Len(created) }
        last(n) == CHOOSE i \in 1..Len(created) :
                       /\ created[i].name = n
                       /\ \A j \in 1..Len(created) :
                              created[j].name = n => j <= i
    IN { e \in watchers : e.name \notin names }
           \cup { [name |-> n, watcher |-> first + last(n)] : n \in names }

\* a rebuildRootNodes that returns once it has asked the host to remove the
\* folders of an empty mapping
rebuildRootNodesSilentWhenEmpty ==
    IF ~workspaceOpen
    THEN /\ rootNodes' = <<>>
         /\ out' = <<>>
         /\ UNCHANGED <<workspaceFolders, rootWatchers, liveWatchers,
                        changeEvents>>
    ELSE /\ rootNodes' = rootNodesOf(workspaceFolders)
         /\ liveWatchers' = liveWatchers \o WatchersOf(workspaceFolders)
         /\ rootWatchers' = rootWatchersSet(rootWatchers, workspaceFolders,
                                            Len(liveWatchers))
         /\ IF Len(rootNodesOf(workspaceFolders)) = 0
            THEN /\ updateWorkspaceFolders(0, Len(workspaceFolders), <<>>,
                                           changeEvents)
                 /\ out' = << HostUpdate(0, Len(workspaceFolders), <<>>) >>
            ELSE /\ UNCHANGED <<workspaceFolders, changeEvents>>
                 /\ out' = << FileFire(<<Event("Changed", <<"/">>)>>) >>

\* a rebuildRootNodes that asks the host to remove the first folder alone
rebuildRootNodesRemovesFirst ==
    IF ~workspaceOpen
    THEN /\ rootNodes' = <<>>
         /\ out' = <<>>
         /\ UNCHANGED <<workspaceFolders, rootWatchers, liveWatchers,
                        changeEvents>>
    ELSE /\ rootNodes' = rootNodesOf(workspaceFolders)
         /\ liveWatchers' = liveWatchers \o WatchersOf(workspaceFolders)
         /\ rootWatchers' = rootWatchersSet(rootWatchers, workspaceFolders,
                                            Len(liveWatchers))
         /\ IF Len(rootNodesOf(workspaceFolders)) = 0
            THEN /\ updateWorkspaceFolders(0, 1, <<>>, changeEvents)
                 /\ out' = << HostUpdate(0, 1, <<>>),
                              FileFire(<<Event("Changed", <<"/">>)>>) >>
            ELSE /\ UNCHANGED <<workspaceFolders, changeEvents>>
                 /\ out' = << FileFire(<<Event("Changed", <<"/">>)>>) >>

\* rebuildRootNodes(); this.rebuildTime is left out, nothing modelled reads it
rebuildRootNodes ==
    IF ~workspaceOpen
    THEN /\ rootNodes' = <<>>
         /\ out' = <<>>
         /\ UNCHANGED <<workspaceFolders, rootWatchers, liveWatchers,
                        changeEvents>>
    ELSE /\ rootNodes' = rootNodesOf(workspaceFolders)
         /\ liveWatchers' = liveWatchers \o WatchersOf(workspaceFolders)
         /\ rootWatchers' = rootWatchersSet(rootWatchers, workspaceFolders,
                                            Len(liveWatchers))
         /\ IF Len(rootNodesOf(workspaceFolders)) = 0
            THEN /\ updateWorkspaceFolders(0, Len(workspaceFolders), <<>>,
                                           changeEvents)
                 /\ out' = << HostUpdate(0, Len(workspaceFolders), <<>>),
                              FileFire(<<Event("Changed", <<"/">>)>>) >>
            ELSE /\ UNCHANGED <<workspaceFolders, changeEvents>>
                 /\ out' = << FileFire(<<Event("Changed", <<"/">>)>>) >>

\* a listing of the virtual root that returns the mapping as it stands and
\* rebuilds it afterwards
readDirectoryRootStale ==
    /\ Len(liveWatchers) + Len(WatchersOf(workspaceFolders)) <= MaxWatchers
    /\ ( /\ workspaceOpen
          /\ Len(rootNodesOf(workspaceFolders)) = 0
          /\ Accepts(workspaceFolders, 0, Len(workspaceFolders), <<>>) )
           => changeEvents < MaxChangeEvents
    /\ rebuildRootNodes
    /\ lastOp' = [op |-> "readDirectoryRoot",
                  open |-> workspaceOpen,
                  folders |-> workspaceFolders,
                  seen |-> [i \in 1..Len(out') |-> rootNodes'],
                  items |-> [i \in 1..Len(rootNodes) |->
                                <<rootNodes[i].name, "Directory">>]]
    /\ UNCHANGED <<filters, config, workspaceOpen, pendingAdds, pendingLists>>

\* readDirectory(uri) for the virtual root "/": the mapping is rebuilt and
\* every root of it is listed as a directory; seen is the mapping a listener
\* finds stored at each emission of the rebuild
readDirectoryRoot ==
    /\ Len(liveWatchers) + Len(WatchersOf(workspaceFolders)) <= MaxWatchers
    /\ ( /\ workspaceOpen
          /\ Len(rootNodesOf(workspaceFolders)) = 0
          /\ Accepts(workspaceFolders, 0, Len(workspaceFolders), <<>>) )
           => changeEvents < MaxChangeEvents
    /\ rebuildRootNodes
    /\ lastOp' = [op |-> "readDirectoryRoot",
                  open |-> workspaceOpen,
                  folders |-> workspaceFolders,
                  seen |-> [i \in 1..Len(out') |-> rootNodes'],
                  items |-> [i \in 1..Len(rootNodes') |->
                                <<rootNodes'[i].name, "Directory">>]]
    /\ UNCHANGED <<filters, config, workspaceOpen, pendingAdds, pendingLists>>

\* the user adds, removes or reorders folders of an open workspace
HostChangesFolders ==
    /\ workspaceOpen
    /\ changeEvents < MaxChangeEvents
    /\ \E w \in Workspaces :
           /\ w # workspaceFolders
           /\ workspaceFolders' = w
    /\ changeEvents' = changeEvents + 1
    /\ out' = <<>>
    /\ lastOp' = [op |-> "HostChangesFolders"]
    /\ UNCHANGED <<filters, config, rootNodes, workspaceOpen, rootWatchers,
                   liveWatchers, pendingAdds, pendingLists>>

\* the folders workspacesChanged keeps: every folder but the synthetic one
NewOrder(folders) == SelectSeq(folders, LAMBDA f : f.scheme # "fildir")

\* a workspacesChanged that puts the synthetic folder first
workspacesChangedSyntheticFirst ==
    /\ changeEvents > 0
    /\ IF ~workspaceOpen
       THEN /\ out' = <<>>
            /\ changeEvents' = changeEvents - 1
            /\ UNCHANGED workspaceFolders
       ELSE IF Len(NewOrder(workspaceFolders)) = 0
       THEN /\ updateWorkspaceFolders(0, Len(workspaceFolders), <<>>,
                                      changeEvents - 1)
            /\ out' = << HostUpdate(0, Len(workspaceFolders), <<>>) >>
       ELSE /\ updateWorkspaceFolders(
                   0, Len(workspaceFolders),
                   <<FildirFolder>> \o NewOrder(workspaceFolders),
                   changeEvents - 1)
            /\ out' = << HostUpdate(
                             0, Len(workspaceFolders),
                             <<FildirFolder>> \o NewOrder(workspaceFolders)) >>
    /\ lastOp' = [op |-> "workspacesChanged", open |-> workspaceOpen,
                  folders |-> workspaceFolders]
    /\ UNCHANGED <<filters, config, rootNodes, workspaceOpen, rootWatchers,
                   liveWatchers, pendingAdds, pendingLists>>

\* a workspacesChanged that turns the order of the folders it keeps
workspacesChangedReversing ==
    LET kept == NewOrder(workspaceFolders)
        turned == [i \in 1..Len(kept) |-> kept[Len(kept) + 1 - i]]
    IN
    /\ changeEvents > 0
    /\ IF ~workspaceOpen
       THEN /\ out' = <<>>
            /\ changeEvents' = changeEvents - 1
            /\ UNCHANGED workspaceFolders
       ELSE IF Len(kept) = 0
       THEN /\ updateWorkspaceFolders(0, Len(workspaceFolders), <<>>,
                                      changeEvents - 1)
            /\ out' = << HostUpdate(0, Len(workspaceFolders), <<>>) >>
       ELSE /\ updateWorkspaceFolders(0, Len(workspaceFolders),
                                      Append(turned, FildirFolder),
                                      changeEvents - 1)
            /\ out' = << HostUpdate(0, Len(workspaceFolders),
                                    Append(turned, FildirFolder)) >>
    /\ lastOp' = [op |-> "workspacesChanged", open |-> workspaceOpen,
                  folders |-> workspaceFolders, events |-> changeEvents]
    /\ UNCHANGED <<filters, config, rootNodes, workspaceOpen, rootWatchers,
                   liveWatchers, pendingAdds, pendingLists>>

\* workspacesChanged(_event), on one delivered change event; events counts
\* the change events that waited when it was delivered
workspacesChanged ==
    /\ changeEvents > 0
    /\ IF ~workspaceOpen
       THEN /\ out' = <<>>
            /\ changeEvents' = changeEvents - 1
            /\ UNCHANGED workspaceFolders
       ELSE IF Len(NewOrder(workspaceFolders)) = 0
       THEN /\ updateWorkspaceFolders(0, Len(workspaceFolders), <<>>,
                                      changeEvents - 1)
            /\ out' = << HostUpdate(0, Len(workspaceFolders), <<>>) >>
       ELSE /\ updateWorkspaceFolders(
                   0, Len(workspaceFolders),
                   Append(NewOrder(workspaceFolders), FildirFolder),
                   changeEvents - 1)
            /\ out' = << HostUpdate(
                             0, Len(workspaceFolders),
                             Append(NewOrder(workspaceFolders), FildirFolder)) >>
    /\ lastOp' = [op |-> "workspacesChanged", open |-> workspaceOpen,
                  folders |-> workspaceFolders, events |-> changeEvents]
    /\ UNCHANGED <<filters, config, rootNodes, workspaceOpen, rootWatchers,
                   liveWatchers, pendingAdds, pendingLists>>

\* the paths of files that appear or disappear under a watched folder
WatchedPaths == { <<"a">>, <<"a", "/", "a", "b">> }

\* vscode.workspace.asRelativePath(uri) for the file rel under the folder
\* mounted at base: the path from the folder, led by the folder's name when
\* the workspace has several folders, and the whole path when no folder of
\* the workspace holds the file
watchedRelativePath(base, rel) ==
    LET holds == { i \in 1..Len(workspaceFolders) :
                     /\ workspaceFolders[i].scheme = "file"
                     /\ workspaceFolders[i].path = base }
    IN IF holds = {} THEN base \o <<"/">> \o rel
       ELSE IF Len(workspaceFolders) > 1
       THEN workspaceFolders[CHOOSE i \in holds : TRUE].name \o <<"/">> \o rel
       ELSE rel

\* the callback of one live watcher, for one file under its folder
watcherFires(type) ==
    \E i \in 1..Len(liveWatchers), rel \in WatchedPaths :
        /\ out' = << FileFire(<< Event(type,
                        <<"/">> \o watchedRelativePath(liveWatchers[i].base,
                                                       rel)) >>) >>
        /\ lastOp' = [op |-> "watcher", type |-> type, watcher |-> i,
                      rel |-> rel]
        /\ UNCHANGED <<filters, config, workspaceFolders, rootNodes, rootVars,
                       pendingAdds, pendingLists>>

\* watcher.onDidCreate((uri) => ...)
onDidCreate == watcherFires("Created")

\* watcher.onDidDelete((uri) => ...)
onDidDelete == watcherFires("Deleted")

Init ==
    /\ config \in {c \in UserConfigs : ConfigGet(c).defined}
    /\ filters = normalizedFilters(ConfigGet(config).value)
    /\ workspaceOpen \in BOOLEAN
    /\ workspaceFolders \in IF workspaceOpen THEN InitialWorkspaces ELSE {<<>>}
    /\ rootNodes = rootNodesOf(workspaceFolders)
    /\ liveWatchers = WatchersOf(workspaceFolders)
    /\ rootWatchers = rootWatchersSet({}, workspaceFolders, 0)
    /\ changeEvents = 0
    /\ pendingAdds = <<>>
    /\ pendingLists = <<>>
    /\ out = <<>>
    /\ lastOp = [op |-> "constructor"]

\* the filter set manager
Next ==
    \/ reloadConfig
    \/ UserEditsSettings
    \/ addPrefix
    \/ addPrefixThen
    \/ addPrefixStatFails
    \/ removePrefix

Spec == Init /\ [][Next]_vars

\* the listing of virtual directories, with the filter set reloaded between
\* the listings
NextList ==
    \/ reloadConfig /\ pendingLists = <<>>
    \/ UserEditsSettings
    \/ readDirectory
    \/ readDirectoryThen
    \/ readDirectoryFails

SpecList == Init /\ [][NextList]_vars

\* the root mapping under a changing list of workspace folders
NextRoots ==
    \/ readDirectoryRoot
    \/ HostChangesFolders
    \/ workspacesChanged
    \/ onDidCreate
    \/ onDidDelete
    \/ stat

\* the provider constructed with the settings never written: none of the
\* handlers of NextRoots reads the filter set
InitRoots == Init /\ config.kind = "unset"

SpecRoots == InitRoots /\ [][NextRoots]_vars

\* the pass-through operations, with the filter set reloaded under them
NextFs ==
    \/ reloadConfig
    \/ UserEditsSettings
    \/ createDirectory
    \/ readFile
    \/ writeFile
    \/ delete
    \/ rename
    \/ copy

SpecFs == Init /\ [][NextFs]_vars

\* every operation that resolves a virtual path, under the filter set and
\* the root mapping the constructor leaves
NextResolve ==
    \/ stat
    \/ readDirectory
    \/ readDirectoryThen
    \/ readDirectoryFails
    \/ createDirectory
    \/ readFile
    \/ writeFile
    \/ delete
    \/ rename
    \/ copy

SpecResolve == Init /\ [][NextResolve]_vars

\* the listing of the virtual root while the host's folders change, under
\* every filter set the settings give the constructor
NextRootListing ==
    \/ readDirectoryRoot
    \/ HostChangesFolders
    \/ workspacesChanged

SpecRootListing == Init /\ [][NextRootListing]_vars

\* the same, where the host delivers every change event it has announced
SpecQuiesce ==
    InitRoots /\ [][NextRootListing]_vars /\ WF_vars(workspacesChanged)

\* listings suspended on the real file system while prefixes are added and
\* removed and the settings reloaded, from an empty list of prefixes
NextRace ==
    \/ readDirectory
    \/ readDirectoryThen
    \/ readDirectoryFails
    \/ addPrefix
    \/ addPrefixThen
    \/ addPrefixStatFails
    \/ removePrefix
    \/ reloadConfig

InitRace == Init /\ workspaceOpen /\ config = [kind |-> "list", value |-> {}]

SpecRace == InitRace /\ [][NextRace]_vars

\* the handlers that change the filter set or the root mapping and signal it
NextNotify ==
    \/ reloadConfig
    \/ UserEditsSettings
    \/ addPrefix
    \/ addPrefixThen
    \/ addPrefixStatFails
    \/ removePrefix
    \/ readDirectoryRoot

InitNotify == Init /\ workspaceOpen

SpecNotify == InitNotify /\ [][NextNotify]_vars

----------------------------------------------------------------------------
(* The listing policy, as the specification words it *)

\* matched(subpath): with a trailing separator appended, subpath starts
\* with at least one stored filter
Matched(subpath) ==
    \E f \in filters : StartsWith(subpath \o <<"/">>, f)

\* subpath/name, which is just name when subpath is empty
ChildPath(subpath, name) ==
    IF subpath = <<>> THEN name ELSE subpath \o <<"/">> \o name

\* the three-way visibility policy for one entry of the real listing
Visible(subpath, entry) ==
    \/ Matched(subpath)
    \/ /\ entry[2] = "Directory"
       /\ \E f \in filters :
             StartsWith(f, ChildPath(subpath, entry[1]) \o <<"/">>)
    \/ /\ entry[2] # "Directory"
       /\ Matched(ChildPath(subpath, entry[1]))

\* a listing has completed with the filter set untouched since the call
ListedHeld == lastOp.op = "readDirectoryThen" /\ lastOp.held

\* C1: a listing of a non-root virtual path, with the filter set held fixed
\* during the call, returns exactly the entries of the real listing that
\* the three-way policy makes visible: none more, none less.
C1_ListingIsPolicy ==
    ListedHeld =>
        lastOp.items =
            SelectSeq(lastOp.finds, LAMBDA e : Visible(lastOp.subpath, e))

\* the segments of a relative path; the empty segment that a trailing
\* separator leaves is no segment
SegmentsOf(path) == SelectSeq(Split(path, "/"), LAMBDA g : g # <<>>)

\* the segment sequence p is a prefix of the segment sequence q
SegPrefix(p, q) == Len(p) <= Len(q) /\ SubSeq(q, 1, Len(p)) = p

\* C2: matching is by whole segments: an entry is returned only if its
\* relative path lies inside some filter's scope (the filter's segments are
\* a prefix of the path's) or on the path to a filter (the path's segments
\* are a strict prefix of the filter's).
C2_WholeSegments ==
    ListedHeld =>
        \A i \in 1..Len(lastOp.items) :
            LET segs == SegmentsOf(ChildPath(lastOp.subpath, lastOp.items[i][1]))
            IN \E f \in filters :
                  \/ SegPrefix(SegmentsOf(f), segs)
                  \/ SegPrefix(segs, SegmentsOf(f)) /\ segs # SegmentsOf(f)

\* C3: in every state reachable by reload, addPrefix and removePrefix every
\* stored filter ends with "/" and the empty string is not stored.
C3_FiltersEndWithSeparator ==
    \A f \in filters : f # <<>> /\ EndsWith(f, <<"/">>)

\* a raw prefix with a separator appended if it does not end in one
Normalize(raw) == IF EndsWith(raw, <<"/">>) THEN raw ELSE raw \o <<"/">>

\* reload has run to its end
Reloaded == lastOp.op = "reloadConfig" /\ lastOp.threw = "none"

\* the list of prefixes that a reload in this state reads
ListRead == IF config.kind = "list" THEN config.value ELSE DefaultPrefixes

\* C4: after reload the stored set is the image of the configured list
\* under normalization, so that "a" and "a/" give the one filter "a/".
C4_ReloadNormalizes ==
    Reloaded => filters = {Normalize(raw) : raw \in ListRead}

\* the filter f derives from the raw entry: it is the entry, as read or
\* with a separator appended
Derives(raw, f) == f = raw \/ f = raw \o <<"/">>

\* C5: reload replaces the set wholesale: every stored filter derives from
\* an entry of the list just read, every entry of the list has its filter
\* stored, and a filter stored before the call that derives from no entry
\* of the list is gone.
C5_ReloadReplaces ==
    Reloaded =>
        /\ \A f \in filters : \E raw \in ListRead : Derives(raw, f)
        /\ \A raw \in ListRead : \E f \in filters : Derives(raw, f)
        /\ \A f \in lastOp.before :
              (~ \E raw \in ListRead : Derives(raw, f)) => f \notin filters

\* a reload has dropped a stale filter and stored the list it read
C5_Witness ==
    /\ Reloaded
    /\ filters # {}
    /\ \E f \in lastOp.before : f \notin filters

\* the setting holds an empty list or no list at all
NoPrefixes ==
    \/ config.kind \in {"unset", "null"}
    \/ config.kind = "list" /\ config.value = {}

\* C6: reload never fails: with an empty list or no list at all it ends
\* without an error, leaves the filter set empty and emits its signals.
C6_ReloadNeverFails ==
    (lastOp.op = "reloadConfig" /\ NoPrefixes) =>
        /\ lastOp.threw = "none"
        /\ filters = {}
        /\ \E i \in 1..Len(out) : out[i].kind = "tree"
        /\ \E i \in 1..Len(out) : out[i].kind = "file"

\* C7: while the filter set is empty, the listing of any non-root virtual
\* path returns the empty list, whatever the real directory holds.
C7_EmptyFiltersEmptyListing ==
    (ListedHeld /\ filters = {}) => lastOp.items = <<>>

\* a non-empty real directory was listed under the empty filter set
C7_Witness ==
    /\ ListedHeld
    /\ filters = {}
    /\ Len(lastOp.finds) = MaxFinds
    /\ lastOp.items = <<>>

\* C8: addPrefix on a path that is not of the local filesystem reports an
\* error to the user and changes nothing: the filter set and the settings
\* stay as they are, no stat is awaited, no event is emitted, nothing is
\* thrown.
C8_AddPrefixWrongScheme ==
    [][ (lastOp'.op = "addPrefix" /\ lastOp'.uri.scheme # "file") =>
            /\ filters' = filters
            /\ config' = config
            /\ pendingAdds' = pendingAdds
            /\ out' = <<ShowError>>
            /\ lastOp'.threw = "none" ]_vars

\* addPrefix has refused a path of another scheme, with filters stored
C8_Witness ==
    /\ lastOp.op = "addPrefix"
    /\ lastOp.uri.scheme = "ftp"
    /\ out = <<ShowError>>
    /\ filters # {}

\* the filter that the path R/s1/.../sn yields, by its segments
ExpectedFilter(uri, type) ==
    IF type = "Directory" THEN Join(uri.segs, "/") \o <<"/">>
    ELSE Join(uri.segs, "/")

\* the callback of addPrefix has run
Added == lastOp.op = "addPrefixThen"

\* C9: addPrefix on the local path R/s1/.../sn stores "s1/.../sn/" for a
\* directory and "s1/.../sn" for a file, without the root name R, and
\* keeps every filter that was stored.
C9_AddPrefixStores ==
    Added =>
        filters = lastOp.before \cup {ExpectedFilter(lastOp.uri, lastOp.type)}

\* a file two segments below the root was added to a set that lacked it
C9_Witness ==
    /\ Added
    /\ lastOp.type = "File"
    /\ Len(lastOp.uri.segs) = 2
    /\ lastOp.before # {}
    /\ ExpectedFilter(lastOp.uri, "File") \notin lastOp.before
    /\ ExpectedFilter(lastOp.uri, "File") \in filters

\* C10: adding a path whose filter is already stored leaves the set as it
\* was, and still writes the set to the settings and emits the tree-change
\* signal and the filesystem-change batch.
C10_AddPrefixIdempotent ==
    (Added /\ ExpectedFilter(lastOp.uri, lastOp.type) \in lastOp.before) =>
        /\ filters = lastOp.before
        /\ config = [kind |-> "list", value |-> filters]
        /\ \E i \in 1..Len(out) : out[i] = ConfigUpdate(filters)
        /\ \E i \in 1..Len(out) : out[i].kind = "tree"
        /\ \E i \in 1..Len(out) : out[i].kind = "file"

\* a stored directory filter was added again
C10_Witness ==
    /\ Added
    /\ lastOp.type = "Directory"
    /\ ExpectedFilter(lastOp.uri, lastOp.type) \in lastOp.before
    /\ filters = lastOp.before
    /\ Len(out) = 3

----------------------------------------------------------------------------
(* removePrefix *)

\* removePrefix has run
Removed == lastOp.op = "removePrefix"

\* C11: removePrefix(p) removes exactly the string p: the set afterwards is
\* the set before without p, every other filter stays (one that starts
\* with p, or differs from p by a trailing separator, too), a p that is not
\* stored leaves the set as it was, and in both cases the resulting set is
\* written to the settings.
C11_RemovePrefixExact ==
    Removed =>
        /\ filters = lastOp.before \ {lastOp.prefix}
        /\ \A f \in lastOp.before : f # lastOp.prefix => f \in filters
        /\ (lastOp.prefix \notin lastOp.before => filters = lastOp.before)
        /\ config = [kind |-> "list", value |-> filters]
        /\ out[1] = ConfigUpdate(filters)

\* "a" was removed from a set that also held "a/", which stays
C11_Witness ==
    /\ Removed
    /\ lastOp.prefix = <<"a">>
    /\ lastOp.before = { <<"a">>, <<"a", "/">> }
    /\ filters = { <<"a", "/">> }

\* C12: after removePrefix(f) the filesystem-change batch is made of Deleted
\* events, one for each registered root R of the root mapping, whose paths
\* are exactly the virtual paths /R/f.
C12_DeletedPerRegisteredRoot ==
    Removed =>
        LET batch == out[3].batch IN
        /\ Len(batch) = Len(rootNodes)
        /\ \A i \in 1..Len(batch) : batch[i].type = "Deleted"
        /\ { batch[i].uri : i \in 1..Len(batch) }
               = { <<"/">> \o rootNodes[j].name \o <<"/">> \o lastOp.prefix :
                       j \in 1..Len(rootNodes) }

\* the listing the callback of readDirectory computes from the real listing
\* finds of the directory at subpath, under the filter set fs
ListingIn(fs, subpath, finds) ==
    SelectSeq(finds,
              LAMBDA entry :
                  \/ subpathMatchesFilterIn(fs, subpath)
                  \/ IF entry[2] = "Directory"
                     THEN prefixOfFilterIn(fs, TestPath(subpath, entry[1]))
                     ELSE subpathMatchesFilterIn(fs, TestPath(subpath, entry[1])))

\* the subpaths of the listed virtual directories
SubPaths == { <<>>, <<"a">>, <<"a", "/", "a", "b">> }

\* removePrefix of the filter that the addPrefix just before it stored for
\* a directory, which the set lacked
RoundTrip ==
    /\ Removed
    /\ lastOp.prev.op = "addPrefixThen"
    /\ lastOp.prev.type = "Directory"
    /\ lastOp.prefix = ExpectedFilter(lastOp.prev.uri, "Directory")
    /\ lastOp.prefix \notin lastOp.prev.before

\* C13: addPrefix(d) on a set S that lacks the filter of the directory d,
\* followed by removePrefix of the stored filter, gives S back, every
\* listing is what it was under S, and when S is empty the listing of a
\* root is empty again.
C13_AddRemoveRoundTrip ==
    RoundTrip =>
        /\ filters = lastOp.prev.before
        /\ \A subpath \in SubPaths, finds \in Listings :
               ListingIn(filters, subpath, finds)
                   = ListingIn(lastOp.prev.before, subpath, finds)
        /\ lastOp.prev.before = {} =>
               \A finds \in Listings : ListingIn(filters, <<>>, finds) = <<>>

\* a directory was added to the empty set and its filter removed again
C13_Witness ==
    /\ RoundTrip
    /\ lastOp.prev.before = {}
    /\ lastOp.before = { lastOp.prefix }
    /\ filters = {}

----------------------------------------------------------------------------
(* rebuildRootNodes *)

\* the root mapping was rebuilt by the listing of the virtual root
Rebuilt == lastOp.op = "readDirectoryRoot"

\* the entries of the root mapping, as a set of <<name, base path>>
Mapping == { <<rootNodes[i].name, rootNodes[i].path>> : i \in 1..Len(rootNodes) }

\* C14: after every rebuild the root mapping holds an entry, name to base
\* path, for exactly the folders of the list it read whose scheme is the
\* local file system: no entry for a non-local or the synthetic folder, and
\* none left from an earlier rebuild for a folder that is gone.
C14_MappingIsLocalRoots ==
    Rebuilt =>
        /\ Mapping = { <<lastOp.folders[i].name, lastOp.folders[i].path>> :
                          i \in { j \in 1..Len(lastOp.folders) :
                                    lastOp.folders[j].scheme = "file" } }
        /\ \A i, j \in 1..Len(rootNodes) :
               rootNodes[i].name = rootNodes[j].name => i = j
        /\ \A i \in 1..Len(lastOp.folders) :
               lastOp.folders[i].scheme # "file" =>
                   ~RootHas(rootNodes, lastOp.folders[i].name)

\* a rebuild over a list that p has left, and that holds a non-local and the
\* synthetic folder: r alone is mapped, p was mapped by an earlier rebuild
C14_Witness ==
    /\ Rebuilt
    /\ lastOp.folders = <<FolderQ, FolderR, FildirFolder>>
    /\ Mapping = { <<FolderR.name, FolderR.path>> }
    /\ \E e \in rootWatchers : e.name = FolderP.name

\* C15: after any number of rebuilds the live watches are exactly one for
\* each entry of the root mapping: no root has two live watches and no
\* watch is left on a root that is not in the mapping.
C15_OneWatchPerRoot ==
    Rebuilt =>
        /\ Len(liveWatchers) = Len(rootNodes)
        /\ \A i \in 1..Len(liveWatchers) :
               \E j \in 1..Len(rootNodes) :
                   rootNodes[j].path = liveWatchers[i].base
        /\ \A i, j \in 1..Len(liveWatchers) :
               liveWatchers[i].base = liveWatchers[j].base => i = j
        /\ { e.name : e \in rootWatchers }
               = { rootNodes[j].name : j \in 1..Len(rootNodes) }

\* the Changed notification for the virtual root
RootChanged == FileFire(<<Event("Changed", <<"/">>)>>)

\* C16 as stated: every rebuild, whatever the folders, ends by emitting the
\* Changed notification for the virtual root.
C16_RebuildAlwaysNotifies ==
    Rebuilt => (Len(out) > 0 /\ out[Len(out)] = RootChanged)

\* C16: every rebuild made while a workspace is open (several folders, only
\* non-local ones, or an empty list) ends by emitting the Changed
\* notification for the virtual root; with no workspace open it returns
\* early and emits nothing.
C16_RebuildNotifiesWhenOpen ==
    Rebuilt =>
        IF lastOp.open
        THEN Len(out) > 0 /\ out[Len(out)] = RootChanged
        ELSE out = <<>>

\* a rebuild over the empty list of an open workspace ended with the
\* notification
C16_Witness ==
    /\ Rebuilt
    /\ lastOp.open
    /\ lastOp.folders = <<>>
    /\ rootNodes = <<>>
    /\ Len(out) = 2
    /\ out[Len(out)] = RootChanged

\* the last handler asked the host to update its folders
AskedUpdate == \E i \in 1..Len(out) : out[i].kind = "updateWorkspaceFolders"

----------------------------------------------------------------------------
(* Resolution and the pass-through operations *)

\* the virtual path v without one leading separator
Stripped(v) == IF v # <<>> /\ v[1] = "/" THEN Tail(v) ELSE v

\* where the first separator of s stands, Len(s) + 1 when it has none
FirstSep(s) ==
    IF \E i \in 1..Len(s) : s[i] = "/"
    THEN CHOOSE i \in 1..Len(s) :
             s[i] = "/" /\ \A j \in 1..(i - 1) : s[j] # "/"
    ELSE Len(s) + 1

\* the first segment of the virtual path v, and what follows its separator
FirstSegment(v) == SubSeq(Stripped(v), 1, FirstSep(Stripped(v)) - 1)
Remaining(v) ==
    SubSeq(Stripped(v), FirstSep(Stripped(v)) + 1, Len(Stripped(v)))

\* the first segment of v names an entry of the root mapping
Registered(v) ==
    \E i \in 1..Len(rootNodes) : rootNodes[i].name = FirstSegment(v)

\* the base path of the root that v names, followed by the rest of v
RealPath(v) ==
    LET i == CHOOSE j \in 1..Len(rootNodes) :
                 rootNodes[j].name = FirstSegment(v)
    IN rootNodes[i].path \o <<"/">> \o Remaining(v)

\* stat has resolved a path that is not the virtual root
Resolved == lastOp.op = "stat" /\ lastOp.args # << <<"/">> >>

\* C18: resolving a virtual path succeeds exactly when its first segment,
\* one leading separator stripped, is a name of the current root mapping;
\* it then gives the root's base path followed by the remaining segments
\* joined by "/" and, as subpath, those segments joined by "/" (empty for
\* the root name alone); otherwise it fails with FileNotFound, carrying
\* the path.
C18_ResolveOutcome ==
    Resolved =>
        LET v == lastOp.args[1] IN
        IF Registered(v)
        THEN /\ lastOp.threw = "none"
             /\ lastOp.real = << RealPath(v) >>
             /\ lastOp.subpaths = << Remaining(v) >>
             /\ Stripped(v) = FirstSegment(v) => lastOp.subpaths = << <<>> >>
        ELSE /\ lastOp.threw = "FileNotFound"
             /\ lastOp.about = Stripped(v)

\* /p/a/ab was resolved to /w/p/a/ab with the subpath a/ab
C18_Witness ==
    /\ Resolved
    /\ lastOp.args = << <<"/", "p", "/", "a", "/", "a", "b">> >>
    /\ lastOp.threw = "none"
    /\ lastOp.real = << <<"/", "w", "/", "p", "/", "a", "/", "a", "b">> >>
    /\ lastOp.subpaths = << <<"a", "/", "a", "b">> >>

\* a pass-through operation has run
Mutated ==
    lastOp.op \in { "createDirectory", "readFile", "writeFile", "delete",
                    "rename", "copy" }

\* C19: whatever the filter set, a pass-through operation whose paths all
\* name registered roots is delegated to the real file system on the real
\* paths the root mapping gives, source and destination each by its own
\* root, and returns what the real file system answers; it fails only for
\* a path that names no registered root.
C19_FiltersDoNotGovernMutation ==
    Mutated =>
        IF \A i \in 1..Len(lastOp.args) : Registered(lastOp.args[i])
        THEN /\ lastOp.threw = "none"
             /\ out = << Delegates(lastOp.op,
                                   [i \in 1..Len(lastOp.args) |->
                                       RealPath(lastOp.args[i])]) >>
             /\ lastOp.result \in FsResults
        ELSE /\ lastOp.threw = "FileNotFound"
             /\ out = <<>>

\* with no filter at all, so that every listing is empty, a file of the
\* root p was renamed into the root r
C19_Witness ==
    /\ Mutated
    /\ filters = {}
    /\ lastOp.op = "rename"
    /\ lastOp.args = << <<"/", "p", "/", "a", "/", "a", "b">>,
                        <<"/", "r", "/", "a">> >>
    /\ lastOp.threw = "none"
    /\ lastOp.result = "done"
    /\ Len(out) = 1

\* workspacesChanged has run on a list of folders
Reconciled == lastOp.op = "workspacesChanged" /\ lastOp.open

\* the places of the synthetic folder in a list of folders
SyntheticIn(folders) ==
    { i \in 1..Len(folders) : folders[i].scheme = "fildir" }

\* C20: after workspacesChanged the list holds exactly one synthetic folder,
\* in the last place and not in the first, if the list it ran on had a
\* folder that is not synthetic, and is empty otherwise.
C20_SyntheticLastOrGone ==
    Reconciled =>
        IF \E i \in 1..Len(lastOp.folders) :
               lastOp.folders[i].scheme # "fildir"
        THEN /\ SyntheticIn(workspaceFolders) = { Len(workspaceFolders) }
             /\ 1 \notin SyntheticIn(workspaceFolders)
        ELSE workspaceFolders = <<>>

\* the synthetic folder stood first and was moved behind the others
C20_Witness ==
    /\ Reconciled
    /\ lastOp.folders = <<FildirFolder, FolderP, FolderQ>>
    /\ workspaceFolders = <<FolderP, FolderQ, FildirFolder>>

----------------------------------------------------------------------------
(* The cascade of a match, the notifications and the descent to a filter *)

\* the subpaths above subpath: its proper prefixes by whole segments, the
\* empty one (the root's own) among them
Above(subpath) ==
    IF subpath = <<>> THEN {}
    ELSE { Join(SubSeq(Split(subpath, "/"), 1, k), "/") :
               k \in 0..(Len(Split(subpath, "/")) - 1) }

\* C21 as stated: a listing of a directory that is matched, or that lies
\* below a matched directory (the root's own empty subpath included),
\* returns the whole real listing, for every filter set.
C21_MatchCascades ==
    ListedHeld =>
        ( ( \E s \in Above(lastOp.subpath) \cup {lastOp.subpath} : Matched(s) )
            => lastOp.items = lastOp.finds )

\* the subpath is matched by a filter that its children keep matching: any
\* match but that of the empty subpath by the filter "/"
MatchedBelow(subpath) ==
    \E f \in filters :
        /\ StartsWith(subpath \o <<"/">>, f)
        /\ ~(subpath = <<>> /\ f = <<"/">>)

\* C21: a listing of a matched directory returns every entry of the real
\* listing, of every kind; every child path of a matched directory is
\* matched too, and so every listing below it is complete, for every
\* filter set, save that the filter "/" matches the empty subpath and no
\* path below it.
C21_MatchCascadesBelow ==
    ListedHeld =>
        /\ ( Matched(lastOp.subpath) => lastOp.items = lastOp.finds )
        /\ ( MatchedBelow(lastOp.subpath) =>
                \A c \in Names : Matched(ChildPath(lastOp.subpath, c)) )
        /\ ( ( \E s \in Above(lastOp.subpath) : MatchedBelow(s) ) =>
                /\ Matched(lastOp.subpath)
                /\ lastOp.items = lastOp.finds )
        /\ ( ( filters = { <<"/">> } /\ lastOp.subpath # <<>> ) =>
                ~Matched(lastOp.subpath) )

\* the directory a, matched by the filter "a/", was listed whole: a file
\* and a directory that no filter names
C21_Witness ==
    /\ ListedHeld
    /\ filters = { <<"a", "/">> }
    /\ lastOp.subpath = <<"a">>
    /\ lastOp.matchesFilter
    /\ lastOp.finds = << <<<<"a">>, "File">>, <<<<"a", "b">>, "Directory">> >>
    /\ lastOp.items = lastOp.finds

\* an emission that tells listeners of a change
Notification(e) == e.kind \in {"tree", "file"}

\* the handlers that change the filter set
FilterHandlers == {"reloadConfig", "addPrefixThen", "removePrefix"}

\* C22: every change notification of reload, addPrefix, removePrefix and
\* rebuildRoots is emitted once the stored filter set, or the root mapping,
\* holds the handler's result: a listener that reads the state at the
\* notification finds the state the handler leaves. addPrefix emits no
\* notification and changes nothing before the type query has answered.
C22_NotifiedAfterMutation ==
    /\ lastOp.op \in FilterHandlers =>
           /\ Len(lastOp.seen) = Len(out)
           /\ \A i \in 1..Len(out) :
                  Notification(out[i]) => lastOp.seen[i] = filters
    /\ lastOp.op = "readDirectoryRoot" =>
           /\ Len(lastOp.seen) = Len(out)
           /\ \A i \in 1..Len(out) :
                  Notification(out[i]) => lastOp.seen[i] = rootNodes
    /\ lastOp.op = "addPrefix" => \A i \in 1..Len(out) : ~Notification(out[i])

\* a reload has replaced a filter set by a different one and emitted its two
\* notifications
C22_Witness ==
    /\ lastOp.op = "reloadConfig"
    /\ lastOp.threw = "none"
    /\ lastOp.before # filters
    /\ Len(out) = 2
    /\ \A i \in 1..2 : Notification(out[i]) /\ lastOp.seen[i] = filters

\* the virtual paths /R/s1, /R/s1/s2, ... above a filter derived from the
\* path R/s1/.../sn, down to the filter's own directory
AncestorPaths(uri, type) ==
    { <<"/">> \o Join(<<uri.root>> \o SubSeq(uri.segs, 1, k), "/") :
        k \in 1..(IF type = "Directory" THEN Len(uri.segs)
                  ELSE Len(uri.segs) - 1) }

\* C23: once addPrefix has completed for a path under the registered root R,
\* the batch holds a Created event for each of /R/s1, /R/s1/s2, ... down to
\* the filter's own directory, and the path of every Created event is a
\* "/"-delimited virtual path whose first segment is a registered root name.
C23_CreatedForEachAncestor ==
    ( Added /\ RootHas(rootNodes, lastOp.uri.root) ) =>
        LET batch == out[3].batch IN
        /\ \A v \in AncestorPaths(lastOp.uri, lastOp.type) :
               \E i \in 1..Len(batch) : batch[i] = Event("Created", v)
        /\ \A i \in 1..Len(batch) :
               batch[i].type = "Created" =>
                   /\ Registered(batch[i].uri)
                   /\ \A j \in 1..Len(batch[i].uri) : batch[i].uri[j] # ","

\* some stored filter starts with subpath followed by the separator
IsPrefixOfSomeFilter(subpath) ==
    \E g \in filters : StartsWith(g, subpath \o <<"/">>)

\* the string f without its trailing separator, if it has one
WithoutSeparator(f) ==
    IF f # <<>> /\ f[Len(f)] = "/" THEN SubSeq(f, 1, Len(f) - 1) ELSE f

ProperAncestors(f) ==
    { Join(SubSeq(Split(f, "/"), 1, k), "/") :
        k \in 1..(Len(Split(f, "/")) - 1) }

OnPathTo(f, subpath, e) ==
    LET segs == SegmentsOf(f) IN
    \E i \in 1..Len(segs) :
        /\ subpath = Join(SubSeq(segs, 1, i - 1), "/")
        /\ e[1] = segs[i]
        /\ (i < Len(segs) => e[2] = "Directory")

\* the entry e of the directory at subpath leads to the filter f or lies
\* inside its scope, by whole segments
LeadsTo(f, subpath, e) ==
    LET segs == SegmentsOf(ChildPath(subpath, e[1])) IN
    \/ SegPrefix(SegmentsOf(f), segs)
    \/ SegPrefix(segs, SegmentsOf(f))

\* C25: the target of every stored filter is reachable by descent: each
\* listing on the way from the root to the filter's last segment returns
\* the entry of the real listing that the next segment names, whatever
\* other filters are stored, and returns no entry that leads to no filter.
C25_FilterReachableByDescent ==
    ListedHeld =>
        /\ \A f \in filters :
               \A k \in 1..Len(lastOp.finds) :
                   OnPathTo(f, lastOp.subpath, lastOp.finds[k]) =>
                       \E j \in 1..Len(lastOp.items) :
                           lastOp.items[j] = lastOp.finds[k]
        /\ \A j \in 1..Len(lastOp.items) :
               \E f \in filters : LeadsTo(f, lastOp.subpath, lastOp.items[j])

----------------------------------------------------------------------------
(* The listing of the virtual root and of the directories below it *)

\* the folders of a list whose scheme is the local file system, in the
\* order of the list
LocalFolders(folders) == SelectSeq(folders, LAMBDA f : f.scheme = "file")

\* C26: the listing of "/" returns one entry for each entry of the mapping
\* it has just rebuilt, typed as a directory, in the order of the mapping:
\* the local folders of the host's list at the time of the call, in the
\* order of that list, whatever the stored filter set and whatever the
\* mapping held before.
C26_RootListingIsFreshMapping ==
    Rebuilt =>
        /\ Len(lastOp.items) = Len(rootNodes)
        /\ \A i \in 1..Len(rootNodes) :
               lastOp.items[i] = <<rootNodes[i].name, "Directory">>
        /\ IF lastOp.open
           THEN lastOp.items =
                    [i \in 1..Len(LocalFolders(lastOp.folders)) |->
                        <<LocalFolders(lastOp.folders)[i].name, "Directory">>]
           ELSE lastOp.items = <<>>

\* the host's list had changed to r before p, with no synthetic folder: the
\* listing gives r and p in that order, under a filter set that matches
\* neither
C26_Witness ==
    /\ Rebuilt
    /\ lastOp.folders = <<FolderR, FolderQ, FolderP>>
    /\ lastOp.items = << <<FolderR.name, "Directory">>,
                         <<FolderP.name, "Directory">> >>
    /\ filters = {}

\* a listing of a directory below the virtual root has completed
Listed == lastOp.op = "readDirectoryThen"

\* the sequence s is the sequence t with some of its elements left out
IsSubsequence(s, t) ==
    \E at \in [1..Len(s) -> 1..Len(t)] :
        /\ \A i \in 1..Len(s) : s[i] = t[at[i]]
        /\ \A i, j \in 1..Len(s) : i < j => at[i] < at[j]

\* C27: the result of listing a directory below the virtual root is a
\* subsequence of the real listing: its entries are entries of the real
\* listing with name and kind unchanged, in the same relative order, each
\* taken at most once.
C27_ListingIsSubsequence ==
    Listed =>
        /\ IsSubsequence(lastOp.items, lastOp.finds)
        /\ Len(lastOp.items) <= Len(lastOp.finds)

\* of a file and a directory of the real listing the directory alone was
\* returned, being on the way to the filter "a/ab/"
C27_Witness ==
    /\ Listed
    /\ lastOp.subpath = <<"a">>
    /\ lastOp.finds = << <<<<"a">>, "File">>, <<<<"a", "b">>, "Directory">> >>
    /\ lastOp.items = << <<<<"a", "b">>, "Directory">> >>

\* the list holds a folder that is not synthetic and exactly one synthetic
\* folder, in the last place
FinalForm(folders) ==
    /\ SyntheticIn(folders) = { Len(folders) }
    /\ Len(folders) >= 2

\* workspacesChanged on a list in its final form leaves the list as it is
\* and makes the host announce nothing
ReconcileIdempotent ==
    ( Reconciled /\ FinalForm(lastOp.folders) ) =>
        /\ workspaceFolders = lastOp.folders
        /\ changeEvents = lastOp.events - 1

\* C28: reconciliation is idempotent and quiesces: workspacesChanged applied
\* to a list that has a non-synthetic folder and exactly one synthetic
\* folder in the last place leaves it unchanged and announces nothing, and
\* the change events that wait are all delivered, none left and none
\* produced without end, unless the user changes the folders again.
C28_ReconcileQuiesces ==
    /\ []ReconcileIdempotent
    /\ (changeEvents > 0) ~>
           (changeEvents = 0 \/ lastOp.op = "HostChangesFolders")

\* workspacesChanged ran on p and the synthetic folder, the event of its own
\* update: the list is as it was and no event waits
C28_Witness ==
    /\ Reconciled
    /\ lastOp.folders = <<FolderP, FildirFolder>>
    /\ workspaceFolders = <<FolderP, FildirFolder>>
    /\ lastOp.events = 1
    /\ changeEvents = 0

\* C29: one listing applies one snapshot of the filter set: when an
\* addPrefix completion, a removePrefix or a reload takes effect while the
\* real read is pending, the list returned is the policy evaluated wholly
\* against the set stored at the call or wholly against the set stored at
\* the completion.
C29_OneSnapshot ==
    Listed =>
        \/ lastOp.items =
               ListingIn(lastOp.callFilters, lastOp.subpath, lastOp.finds)
        \/ lastOp.items = ListingIn(filters, lastOp.subpath, lastOp.finds)

----------------------------------------------------------------------------
(* The persisted list *)

\* the list of prefixes that the settings hold, as a set
Persisted == IF config.kind = "list" THEN config.value ELSE {}

----------------------------------------------------------------------------
(* Failure of the resolution, and the roots of the host *)

\* the operations that resolve a virtual path before they go to the real
\* file system
ResolvingOps ==
    { "stat", "readDirectory", "createDirectory", "readFile", "writeFile",
      "delete", "rename", "copy" }

\* the virtual paths the last operation was given
PathsGiven ==
    IF lastOp.op = "readDirectory" THEN << lastOp.vpath >> ELSE lastOp.args

\* the last operation resolved paths other than the virtual root
ResolvedPaths == lastOp.op \in ResolvingOps /\ PathsGiven # << <<"/">> >>

\* an operation given a path that names no registered root has failed with
\* FileNotFound and has called nothing of the real file system
FailsBeforeDelegating ==
    ResolvedPaths =>
        IF \E i \in 1..Len(PathsGiven) : ~Registered(PathsGiven[i])
        THEN /\ lastOp.threw = "FileNotFound"
             /\ out = <<>>
        ELSE lastOp.threw = "none"

\* a step that ends in such a failure changes neither the filter set nor the
\* root mapping, and leaves no listing suspended on the real file system
FailureChangesNothing ==
    ( /\ lastOp'.op \in ResolvingOps
      /\ lastOp'.threw = "FileNotFound" )
        => /\ filters' = filters
           /\ rootNodes' = rootNodes
           /\ pendingLists' = pendingLists
           /\ config' = config
           /\ workspaceFolders' = workspaceFolders

\* C31: an operation on a virtual path whose first segment is not a
\* registered root fails with FileNotFound before anything is asked of the
\* real file system: stat, the listing, createDirectory, readFile, writeFile
\* and delete delegate nothing, rename and copy touch neither endpoint when
\* either is unresolvable, and the failed call leaves the filter set and
\* the root mapping as they were.
C31_NotFoundBeforeDelegation ==
    /\ []FailsBeforeDelegating
    /\ [][FailureChangesNothing]_vars

\* a rename from a path of the root p to a path of the non-local folder q
\* failed without a call to the real file system
C31_Witness ==
    /\ lastOp.op = "rename"
    /\ lastOp.args = << <<"/", "p", "/", "a", "/", "a", "b">>,
                        <<"/", "q", "/", "a">> >>
    /\ Registered(lastOp.args[1])
    /\ lastOp.threw = "FileNotFound"
    /\ out = <<>>

\* the folders of a list that are not synthetic, in the order of the list
NonSynthetic(folders) == SelectSeq(folders, LAMBDA f : f.scheme # "fildir")

\* a step of the component, and not the user changing the folders
ComponentStep == lastOp'.op # "HostChangesFolders"

\* C32: the component never removes a root that is not synthetic from the
\* host's list: across every step of workspacesChanged, of a rebuild and of
\* a listing of the virtual root the non-synthetic folders, local or not,
\* stay in the list in the same order; only the synthetic folder is added,
\* moved or removed.
C32_NonSyntheticRootsKept ==
    [][ComponentStep =>
            NonSynthetic(workspaceFolders') = NonSynthetic(workspaceFolders)]_vars

====
